---- MODULE Spec2Model ----
(***************************************************************************)
(* Interval algebra, planar geometry and promise sequencing of the utility *)
(* library.                                                                *)
(*                                                                         *)
(* An interval is a JavaScript array [start, end]; an array of intervals   *)
(* holds references to such pair objects.  unionIntervals sorts the array  *)
(* it is given in place and writes to the pairs it holds, so the model     *)
(* keeps the pair objects in a heap (object id -> pair) and the array as a *)
(* sequence of object ids.                                                 *)
(*                                                                         *)
(* Numbers are modelled by small integers; every comparison the code makes *)
(* is exact on them.  Point sets of closed real intervals with integer end *)
(* points are compared on the half-integer grid (coordinate 2*x for the    *)
(* integer x, 2*x+1 for the open gap between x and x+1).                   *)
(***************************************************************************)
EXTENDS Integers, Sequences, FiniteSets, TLC

VARIABLES
    heap,       \* Spec: pair objects of the input array, object id -> <<start, end>>
    intervals,  \* Spec: the input array, a sequence of object ids
    domain,     \* Spec: the domain interval <<start, end>>
    op,         \* Spec: the function called last ("none" before the first call)
    ret,        \* Spec: the value returned by the last call, a sequence of pairs
    before,     \* Spec: heap and array as they were when the last call started
    arg1,       \* SpecLine: first argument <<p, q>>
    arg2,       \* SpecLine: second argument <<p, q>>
    fn,         \* SpecLine: the function called ("none" before the call)
    ivOut,      \* SpecLine: result of intersectionIntervals
    lineOut,    \* SpecLine: result of getLineIntersection
    rect1,      \* SpecRect, SpecPoint: Rect argument {x, y, w, h}
    rect2,      \* SpecRect: second Rect argument
    pixel,      \* SpecRect: tolerance given to getRectTouching
    point,      \* SpecPoint: Coord argument {x, y}
    rfn,        \* SpecRect, SpecPoint: the function called ("none" before the call)
    boolOut,    \* SpecRect, SpecPoint: result of isRectIntersection / isPointInsideRectangle
    rectOut,    \* SpecRect: result of getRectIntersection
    touchOut,   \* SpecRect: result of getRectTouching, null or {c1, c2, dir}
    coord,      \* SpecVector: Coord argument {x, y} of getVector
    vfn,        \* SpecVector: the function called last ("none" before the first call)
    vecOut,     \* SpecVector: result of getVector, {length, angle}
    coordOut,   \* SpecVector: result of getCoord, {x, y}
    factories,  \* SpecSettled: the outcome of the promise each factory returns
    link,       \* SpecSettled: index of the factory whose callbacks run next
    stage,      \* SpecSettled: the callback of the chain that is next to be reached
    result,     \* SpecSettled: settled state of the promise the next callback hangs on
    values,     \* SpecSettled: the array the callbacks push to
    settledOut, \* SpecSettled: state of the promise promiseSettledSequence returned
    original,   \* SpecRepeat: the values of the input array as the caller built it
    promiseFactories, \* SpecSequence, SpecTry: the kind of each factory of the array
    index,      \* SpecSequence, SpecTry: the factory whose then callback is next or whose promise is pending
    acc,        \* SpecSequence, SpecTry: state of the promise the reduce has accumulated so far
    calls,      \* SpecSequence, SpecTry: the factory invocations so far, {factory, value}
    outcomes,   \* SpecSequence: how the promises of the invoked factories settled
    times,      \* SpecTry: the times argument of tryRequest
    fetches,    \* SpecTry: number of fetch calls issued
    responses,  \* SpecTry: how the fetch calls settled
    tryStage,   \* SpecTry: the callback of tryRequest's own chain that is next
    tryOut,     \* SpecTry: state of tryRequest's chain behind the callbacks reached so far
    layers,     \* SpecLayerset: the layers array of the Layerset, a sequence of layer objects
    zIndex,     \* SpecLayerset: the zIndex property of every layer object
    lfn,        \* SpecLayerset: the method called last ("none" after construction)
    animationTimers, \* SpecAnimation: animation.timers, ID -> handle of the requested frame
    animationValues, \* SpecAnimation: animation.values, ID -> last value of the animation
    frames,     \* SpecAnimation: the animation frames requested and not yet run or cancelled
    running,    \* SpecAnimation: ID -> {currentTime, delay} of the run animation.run started last
    handles,    \* SpecAnimation: number of requestAnimationFrame calls so far
    resolved,   \* SpecAnimation: ID -> value the promise of the last finished run resolved with
    afn,        \* SpecAnimation: the function called last ("none" at the start)
    stopOut,    \* SpecAnimation: argument, situation and result of the last animation.stop call
    active,     \* SpecIdle: idleHandler's active flag
    timerRunning, \* SpecIdle: idleHandler's timerRunning flag
    timerPending, \* SpecIdle: the timeout set last has neither expired nor been cleared
    observers   \* SpecIdle: the observers array; for every slot what its handler has received

intervalVars == <<heap, intervals, domain, op, ret, before>>
lineVars == <<arg1, arg2, fn, ivOut, lineOut>>
rectVars == <<rect1, rect2, pixel, point, rfn, boolOut, rectOut, touchOut>>

vectorVars == <<coord, vfn, vecOut, coordOut>>
settledVars == <<factories, link, stage, result, values, settledOut>>
repeatVars == <<original>>
sequenceVars == <<promiseFactories, index, acc, calls, outcomes, times, fetches,
                  responses, tryStage, tryOut>>
layersetVars == <<layers, zIndex, lfn>>
animationVars == <<animationTimers, animationValues, frames, running, handles,
                   resolved, afn, stopOut>>
idleVars == <<active, timerRunning, timerPending, observers>>

vars == <<intervalVars, lineVars, rectVars, vectorVars, settledVars, repeatVars, sequenceVars, layersetVars, animationVars, idleVars>>

\* Bounds of the model.
MaxCoord == 3
MaxLen == 2

Coords == 0..MaxCoord

\* Well-formed intervals [start, end], start <= end.
Interval == {iv \in Coords \X Coords : iv[1] <= iv[2]}

\* Arrays of at most MaxLen intervals, as sequences of values.
IntervalArrays == UNION {[1..n -> Interval] : n \in 0..MaxLen}

\* JavaScript null.
null == <<>>

Max(a, b) == IF a >= b THEN a ELSE b
Min(a, b) == IF a <= b THEN a ELSE b

(***************************************************************************)
(* sortDescriptor(a, b) with the default ascending order, on numbers.      *)
(***************************************************************************)
sortDescriptor(a, b) ==
    IF a > b THEN 1
    ELSE IF a < b THEN 0 - 1
    ELSE 0

(***************************************************************************)
(* intervals.sort((a, b) => sortDescriptor(a[0], b[0])): Array.prototype.  *)
(* sort is stable, so pairs with equal starts keep their relative order.   *)
(* The array holds object ids; h is the heap.                              *)
(***************************************************************************)
RECURSIVE InsertSorted(_, _, _)
InsertSorted(h, s, x) ==
    IF s = <<>> THEN <<x>>
    ELSE IF sortDescriptor(h[x][1], h[Head(s)][1]) < 0 THEN <<x>> \o s
    ELSE <<Head(s)>> \o InsertSorted(h, Tail(s), x)

RECURSIVE sortByStart(_, _)
sortByStart(h, arr) ==
    IF arr = <<>> THEN <<>>
    ELSE InsertSorted(h, sortByStart(h, SubSeq(arr, 1, Len(arr) - 1)), arr[Len(arr)])

(***************************************************************************)
(* intersectionIntervals(interval1, interval2)                             *)
(***************************************************************************)
intersectionIntervalsNoPoint(interval1, interval2) ==
    LET start == Max(interval1[1], interval2[1])
        end == Min(interval1[2], interval2[2])
    IN IF start < end THEN <<start, end>> ELSE null

intersectionIntervals(interval1, interval2) ==
    LET start == Max(interval1[1], interval2[1])
        end == Min(interval1[2], interval2[2])
    IN IF start <= end THEN <<start, end>> ELSE null

(***************************************************************************)
(* unionIntervals: the forEach callback for i > 0.  top and interval are   *)
(* references; "top[1] = interval[1]" writes to the pair object on the     *)
(* heap, which is also an element of the input array.                      *)
(***************************************************************************)
unionStepNoTouch(h, stack, interval) ==
    LET top == stack[Len(stack)] IN
    IF h[top][2] <= h[interval][1]
    THEN [heap |-> h, stack |-> Append(stack, interval)]
    ELSE IF h[top][2] < h[interval][2]
    THEN [heap |-> [h EXCEPT ![top] = <<h[top][1], h[interval][2]>>], stack |-> stack]
    ELSE [heap |-> h, stack |-> stack]

unionStepCopy(h, stack, interval) ==
    LET top == stack[Len(stack)] IN
    IF h[top][2] < h[interval][1]
    THEN [heap |-> h, stack |-> Append(stack, interval)]
    ELSE [heap |-> h, stack |-> stack]

unionStep(h, stack, interval) ==
    LET top == stack[Len(stack)] IN
    IF h[top][2] < h[interval][1]
    THEN [heap |-> h, stack |-> Append(stack, interval)]
    ELSE IF h[top][2] < h[interval][2]
    THEN [heap |-> [h EXCEPT ![top] = <<h[top][1], h[interval][2]>>], stack |-> stack]
    ELSE [heap |-> h, stack |-> stack]

RECURSIVE unionScan(_, _, _, _)
unionScan(h, arr, i, stack) ==
    IF i > Len(arr) THEN [heap |-> h, stack |-> stack]
    ELSE IF i = 1 THEN unionScan(h, arr, 2, <<arr[1]>>)
    ELSE LET r == unionStep(h, stack, arr[i])
         IN unionScan(r.heap, arr, i + 1, r.stack)

\* The values of the pair objects a sequence of references points to.
Deref(h, refs) == [i \in 1..Len(refs) |-> h[refs[i]]]

(***************************************************************************)
(* unionIntervals(intervals): the heap and the array after the call, and   *)
(* the returned stack (references to pair objects of the input).           *)
(***************************************************************************)
unionIntervals(h, arr) ==
    LET sorted == sortByStart(h, arr)
        r == unionScan(h, sorted, 1, <<>>)
    IN [heap |-> r.heap, intervals |-> sorted, stack |-> r.stack,
        ret |-> Deref(r.heap, r.stack)]

(***************************************************************************)
(* complementMultiIntervals: the candidate for index i of                  *)
(* times(mergedIntervals.length + 1); i is the JavaScript index, merged    *)
(* the values of mergedIntervals (1-based here).                           *)
(***************************************************************************)
toBePushedFromStart(dom, merged, i) ==
    IF i = 0
    THEN <<dom[1], IF Len(merged) > 0 THEN merged[1][1] ELSE dom[2]>>
    ELSE IF i = Len(merged)
    THEN <<merged[i][1], dom[2]>>
    ELSE <<merged[i][1], merged[i + 1][1]>>

toBePushedFallbackStart(dom, merged, i) ==
    IF i = 0
    THEN <<dom[1], IF Len(merged) > 0 THEN merged[1][1] ELSE dom[1]>>
    ELSE IF i = Len(merged)
    THEN <<merged[i][2], dom[2]>>
    ELSE <<merged[i][2], merged[i + 1][1]>>

toBePushed(dom, merged, i) ==
    IF i = 0
    THEN <<dom[1], IF Len(merged) > 0 THEN merged[1][1] ELSE dom[2]>>
    ELSE IF i = Len(merged)
    THEN <<merged[i][2], dom[2]>>
    ELSE <<merged[i][2], merged[i + 1][1]>>

complementKeepsPoints(dom, h, arr) ==
    LET u == unionIntervals(h, arr)
        candidates == [k \in 1..(Len(u.ret) + 1) |-> toBePushed(dom, u.ret, k - 1)]
    IN [heap |-> u.heap, intervals |-> u.intervals,
        ret |-> SelectSeq(candidates, LAMBDA p : p[1] <= p[2])]

complementClipsInPlace(dom, h, arr) ==
    LET u == unionIntervals(h, arr)
        candidates == [k \in 1..(Len(u.ret) + 1) |-> toBePushed(dom, u.ret, k - 1)]
        clipped == [k \in DOMAIN u.heap |->
                       IF \E j \in 1..Len(u.stack) : u.stack[j] = k
                       THEN <<Max(u.heap[k][1], dom[1]), Min(u.heap[k][2], dom[2])>>
                       ELSE u.heap[k]]
    IN [heap |-> clipped, intervals |-> u.intervals,
        ret |-> SelectSeq(candidates, LAMBDA p : p[1] < p[2])]

complementMultiIntervals(dom, h, arr) ==
    LET u == unionIntervals(h, arr)
        candidates == [k \in 1..(Len(u.ret) + 1) |-> toBePushed(dom, u.ret, k - 1)]
    IN [heap |-> u.heap, intervals |-> u.intervals,
        ret |-> SelectSeq(candidates, LAMBDA p : p[1] < p[2])]

(***************************************************************************)
(* intersectionMultiIntervals(domain, intervals)                           *)
(***************************************************************************)
intersectionMultiIntervals(dom, h, arr) ==
    LET u == unionIntervals(h, arr)
        each == [k \in 1..Len(u.ret) |-> intersectionIntervals(u.ret[k], dom)]
    IN [heap |-> u.heap, intervals |-> u.intervals,
        ret |-> SelectSeq(each, LAMBDA p : p # null)]

(***************************************************************************)
(* Spec: a caller holds one array of intervals and one domain and calls    *)
(* the three array functions on them, any number of times in any order.    *)
(* The array holds distinct pair objects (object i at index i), as an      *)
(* array literal does; the domain is a pair of its own.                    *)
(***************************************************************************)
IdleRect ==
    /\ rect1 = [x |-> 0, y |-> 0, w |-> 0, h |-> 0]
    /\ rect2 = [x |-> 0, y |-> 0, w |-> 0, h |-> 0]
    /\ pixel = 0
    /\ point = [x |-> 0, y |-> 0]
    /\ rfn = "none"
    /\ boolOut = FALSE
    /\ rectOut = [x |-> 0, y |-> 0, w |-> 0, h |-> 0]
    /\ touchOut = <<>>

IdleVector ==
    /\ coord = [x |-> 0, y |-> 0]
    /\ vfn = "none"
    /\ vecOut = <<>>
    /\ coordOut = <<>>

IdleSettled ==
    /\ factories = <<>>
    /\ link = 0
    /\ stage = "none"
    /\ result = <<>>
    /\ values = <<>>
    /\ settledOut = <<>>

IdleRepeat == original = <<>>

IdleSequence ==
    /\ promiseFactories = <<>>
    /\ index = 0
    /\ acc = <<>>
    /\ calls = <<>>
    /\ outcomes = <<>>
    /\ times = 0
    /\ fetches = 0
    /\ responses = <<>>
    /\ tryStage = "none"
    /\ tryOut = <<>>

IdleLayerset ==
    /\ layers = <<>>
    /\ zIndex = <<>>
    /\ lfn = "none"

IdleAnimation ==
    /\ animationTimers = <<>>
    /\ animationValues = <<>>
    /\ frames = {}
    /\ running = <<>>
    /\ handles = 0
    /\ resolved = <<>>
    /\ afn = "none"
    /\ stopOut = <<>>

IdleIdle ==
    /\ active = FALSE
    /\ timerRunning = FALSE
    /\ timerPending = FALSE
    /\ observers = <<>>

IdleLine ==
    /\ arg1 = <<0, 0>>
    /\ arg2 = <<0, 0>>
    /\ fn = "none"
    /\ ivOut = null
    /\ lineOut = [c1 |-> 0, c2 |-> 0]

Init ==
    /\ \E a \in IntervalArrays :
        /\ heap = a
        /\ intervals = [i \in 1..Len(a) |-> i]
        /\ before = [heap |-> a, intervals |-> [i \in 1..Len(a) |-> i]]
    /\ domain \in Interval
    /\ op = "none"
    /\ ret = <<>>
    /\ IdleLine
    /\ IdleRect
    /\ IdleVector
    /\ IdleSettled
    /\ IdleRepeat
    /\ IdleSequence
    /\ IdleLayerset
    /\ IdleAnimation
    /\ IdleIdle

CallUnion ==
    LET r == unionIntervals(heap, intervals) IN
    /\ before' = [heap |-> heap, intervals |-> intervals]
    /\ heap' = r.heap
    /\ intervals' = r.intervals
    /\ ret' = r.ret
    /\ op' = "union"
    /\ UNCHANGED <<domain, lineVars, rectVars, vectorVars, settledVars, repeatVars, sequenceVars, layersetVars, animationVars, idleVars>>

CallComplement ==
    LET r == complementMultiIntervals(domain, heap, intervals) IN
    /\ before' = [heap |-> heap, intervals |-> intervals]
    /\ heap' = r.heap
    /\ intervals' = r.intervals
    /\ ret' = r.ret
    /\ op' = "complement"
    /\ UNCHANGED <<domain, lineVars, rectVars, vectorVars, settledVars, repeatVars, sequenceVars, layersetVars, animationVars, idleVars>>

CallIntersection ==
    LET r == intersectionMultiIntervals(domain, heap, intervals) IN
    /\ before' = [heap |-> heap, intervals |-> intervals]
    /\ heap' = r.heap
    /\ intervals' = r.intervals
    /\ ret' = r.ret
    /\ op' = "intersection"
    /\ UNCHANGED <<domain, lineVars, rectVars, vectorVars, settledVars, repeatVars, sequenceVars, layersetVars, animationVars, idleVars>>

Next == CallUnion \/ CallComplement \/ CallIntersection

Spec == Init /\ [][Next]_vars

(***************************************************************************)
(* SpecRepeat: the same caller and the same calls as in Spec; the values   *)
(* of the array as the caller built it are kept in original, so that the   *)
(* result of a later call can be compared with the result on a fresh copy. *)
(***************************************************************************)
InitRepeat ==
    /\ \E a \in IntervalArrays :
        /\ heap = a
        /\ intervals = [i \in 1..Len(a) |-> i]
        /\ before = [heap |-> a, intervals |-> [i \in 1..Len(a) |-> i]]
        /\ original = a
    /\ domain \in Interval
    /\ op = "none"
    /\ ret = <<>>
    /\ IdleLine
    /\ IdleRect
    /\ IdleVector
    /\ IdleSettled
    /\ IdleSequence
    /\ IdleLayerset
    /\ IdleAnimation
    /\ IdleIdle

SpecRepeat == InitRepeat /\ [][Next]_vars

(***************************************************************************)
(* getLineIntersection(line1, line2) on RectangularLine records {c1, c2}.  *)
(***************************************************************************)
RectangularLine(p) == [c1 |-> p[1], c2 |-> p[2]]

getLineIntersectionWrongEnd(line1, line2) ==
    IF line1.c1 < line2.c1
    THEN IF line1.c2 > line2.c1
         THEN [c1 |-> line2.c1, c2 |-> line2.c2]
         ELSE [c1 |-> 0, c2 |-> 0]
    ELSE IF line1.c1 < line2.c2
         THEN IF line1.c2 < line2.c2
              THEN [c1 |-> line1.c1, c2 |-> line1.c2]
              ELSE [c1 |-> line1.c1, c2 |-> line2.c2]
         ELSE [c1 |-> 0, c2 |-> 0]

getLineIntersection(line1, line2) ==
    IF line1.c1 < line2.c1
    THEN IF line1.c2 > line2.c1
         THEN IF line1.c2 > line2.c2
              THEN [c1 |-> line2.c1, c2 |-> line2.c2]
              ELSE [c1 |-> line2.c1, c2 |-> line1.c2]
         ELSE [c1 |-> 0, c2 |-> 0]
    ELSE IF line1.c1 < line2.c2
         THEN IF line1.c2 < line2.c2
              THEN [c1 |-> line1.c1, c2 |-> line1.c2]
              ELSE [c1 |-> line1.c1, c2 |-> line2.c2]
         ELSE [c1 |-> 0, c2 |-> 0]

(***************************************************************************)
(* SpecLine: one call of a two-argument function on a pair of ranges.  The *)
(* arguments are any two pairs of numbers, well-formed or not.             *)
(***************************************************************************)
IdleInterval ==
    /\ heap = <<>>
    /\ intervals = <<>>
    /\ domain = <<0, 0>>
    /\ op = "none"
    /\ ret = <<>>
    /\ before = [heap |-> <<>>, intervals |-> <<>>]

InitLine ==
    /\ arg1 \in Coords \X Coords
    /\ arg2 \in Coords \X Coords
    /\ fn = "none"
    /\ ivOut = null
    /\ lineOut = [c1 |-> 0, c2 |-> 0]
    /\ IdleInterval
    /\ IdleRect
    /\ IdleVector
    /\ IdleSettled
    /\ IdleRepeat
    /\ IdleSequence
    /\ IdleLayerset
    /\ IdleAnimation
    /\ IdleIdle

CallIntersectionIntervals ==
    /\ fn = "none"
    /\ fn' = "intersectionIntervals"
    /\ ivOut' = intersectionIntervals(arg1, arg2)
    /\ UNCHANGED <<arg1, arg2, lineOut, intervalVars, rectVars, vectorVars, settledVars, repeatVars, sequenceVars, layersetVars, animationVars, idleVars>>

CallGetLineIntersection ==
    /\ fn = "none"
    /\ fn' = "getLineIntersection"
    /\ lineOut' = getLineIntersection(RectangularLine(arg1), RectangularLine(arg2))
    /\ UNCHANGED <<arg1, arg2, ivOut, intervalVars, rectVars, vectorVars, settledVars, repeatVars, sequenceVars, layersetVars, animationVars, idleVars>>

NextLine == CallIntersectionIntervals \/ CallGetLineIntersection

SpecLine == InitLine /\ [][NextLine]_vars

(***************************************************************************)
(* Point sets.  A closed interval [a, b] with integer end points holds the *)
(* grid points 2a..2b; the open interval (a, b) holds 2a+1..2b-1.          *)
(***************************************************************************)
PointSet(iv) == (2 * iv[1])..(2 * iv[2])
InteriorSet(iv) == (2 * iv[1] + 1)..(2 * iv[2] - 1)
Points(seq) == UNION {PointSet(seq[k]) : k \in 1..Len(seq)}

\* The argument array of the last call, by value, as it was when the call started.
InputBefore == Deref(before.heap, before.intervals)

\* intersectionMultiIntervals on the arguments the last call was given.
IntersectionOfInput == intersectionMultiIntervals(domain, before.heap, before.intervals).ret

\* unionIntervals on the arguments the last call was given.
UnionOfInput == unionIntervals(before.heap, before.intervals).ret

(***************************************************************************)
(* C1: unionIntervals returns a sequence sorted ascending by start, each   *)
(* element ending strictly before the next one starts, whose point set is  *)
(* the union of the point sets of the input intervals.                     *)
(***************************************************************************)
C1_UnionSortedSeparatedExact ==
    op = "union" =>
        /\ \A k \in 1..(Len(ret) - 1) :
            /\ ret[k][1] <= ret[k + 1][1]
            /\ ret[k][2] < ret[k + 1][1]
        /\ Points(ret) = Points(InputBefore)

\* An unsorted pair of properly overlapping intervals was sorted and merged into one.
C1_Witness ==
    /\ op = "union"
    /\ Len(InputBefore) = 2
    /\ InputBefore[2][1] < InputBefore[1][1]
    /\ InputBefore[1][1] < InputBefore[2][2]
    /\ InputBefore[2][2] < InputBefore[1][2]
    /\ intervals # before.intervals
    /\ heap # before.heap
    /\ ret = <<(<<InputBefore[2][1], InputBefore[1][2]>>)>>

(***************************************************************************)
(* C2: the point sets of complementMultiIntervals(domain, I) and of        *)
(* intersectionMultiIntervals(domain, I) together are the point set of     *)
(* domain, for every sequence I of well-formed intervals.                  *)
(***************************************************************************)
C2_ComplementAndIntersectionCoverDomain ==
    op = "complement" =>
        Points(ret) \cup Points(IntersectionOfInput) = PointSet(domain)

(***************************************************************************)
(* C3 as stated: no point belongs both to a piece of the complement and to *)
(* a piece of the intersection.                                            *)
(***************************************************************************)
C3_ComplementAndIntersectionDisjoint ==
    op = "complement" =>
        Points(ret) \cap Points(IntersectionOfInput) = {}

(***************************************************************************)
(* C3 amended: a point that belongs both to a piece of the complement and  *)
(* to a piece of the intersection is an end point of each of the two       *)
(* pieces, so the two results overlap in no interval of positive width.    *)
(***************************************************************************)
C3_ComplementAndIntersectionShareOnlyEndpoints ==
    op = "complement" =>
        \A c \in 1..Len(ret) : \A x \in 1..Len(IntersectionOfInput) :
            LET piece == ret[c]
                cut == IntersectionOfInput[x]
            IN \A p \in PointSet(piece) \cap PointSet(cut) :
                /\ p \in {2 * piece[1], 2 * piece[2]}
                /\ p \in {2 * cut[1], 2 * cut[2]}

\* A complement piece and an intersection piece meet in a common end point.
C3_Witness ==
    /\ op = "complement"
    /\ Len(ret) = 2
    /\ Points(ret) \cap Points(IntersectionOfInput) # {}

(***************************************************************************)
(* C4: every piece of complementMultiIntervals(domain, I) is a             *)
(* sub-interval of domain whose interior is covered by no interval of I.   *)
(***************************************************************************)
C4_ComplementPiecesInsideDomainAndUncovered ==
    op = "complement" =>
        \A c \in 1..Len(ret) :
            /\ domain[1] <= ret[c][1]
            /\ ret[c][2] <= domain[2]
            /\ InteriorSet(ret[c]) \cap Points(InputBefore) = {}

(***************************************************************************)
(* C5 as stated: complementMultiIntervals(domain, []) returns [domain] for *)
(* every domain with start <= end, a degenerate domain included.           *)
(***************************************************************************)
C5_ComplementOfNothingIsDomain ==
    (op = "complement" /\ before.intervals = <<>>) => ret = <<domain>>

(***************************************************************************)
(* C5 amended: complementMultiIntervals(domain, []) returns [domain] for   *)
(* every domain with start < end, and [] for a degenerate domain with      *)
(* start = end.                                                            *)
(***************************************************************************)
C5_ComplementOfNothingIsProperDomain ==
    (op = "complement" /\ before.intervals = <<>>) =>
        ret = IF domain[1] < domain[2] THEN <<domain>> ELSE <<>>

\* The complement of the empty array was taken within a domain of positive width.
C5_Witness ==
    /\ op = "complement"
    /\ before.intervals = <<>>
    /\ domain[1] < domain[2]
    /\ ret = <<domain>>

(***************************************************************************)
(* C6: every piece of complementMultiIntervals has start < end, and each   *)
(* piece ends at or before the start of the next one.                      *)
(***************************************************************************)
C6_ComplementPiecesPositiveAscending ==
    op = "complement" =>
        /\ \A c \in 1..Len(ret) : ret[c][1] < ret[c][2]
        /\ \A c \in 1..(Len(ret) - 1) : ret[c][2] <= ret[c + 1][1]

\* Two pieces were returned and a zero-width gap was left out.
C6_Witness ==
    /\ op = "complement"
    /\ Len(ret) = 2
    /\ \E k \in 0..Len(UnionOfInput) :
        LET cand == toBePushed(domain, UnionOfInput, k) IN cand[1] = cand[2]

(***************************************************************************)
(* C7: intersectionMultiIntervals(domain, I) returns, in ascending order,  *)
(* the pieces [max(m.start, domain.start), min(m.end, domain.end)] of the  *)
(* elements m of unionIntervals(I) that meet domain: every piece lies      *)
(* within domain, each piece ends before the next one starts, the point    *)
(* set of the pieces is that of domain intersected with the union of I,    *)
(* and an empty I gives an empty result.                                   *)
(***************************************************************************)
C7_IntersectionClipsUnionToDomain ==
    op = "intersection" =>
        LET meeting == SelectSeq(UnionOfInput,
                LAMBDA m : Max(m[1], domain[1]) <= Min(m[2], domain[2]))
        IN
        /\ Len(ret) = Len(meeting)
        /\ \A k \in 1..Len(ret) :
            /\ ret[k] = <<Max(meeting[k][1], domain[1]), Min(meeting[k][2], domain[2])>>
            /\ domain[1] <= ret[k][1]
            /\ ret[k][1] <= ret[k][2]
            /\ ret[k][2] <= domain[2]
        /\ \A k \in 1..(Len(ret) - 1) : ret[k][2] < ret[k + 1][1]
        /\ Points(ret) = PointSet(domain) \cap Points(InputBefore)
        /\ (before.intervals = <<>> => ret = <<>>)

\* Two merged pieces meet the domain, one of them in a single point of its boundary.
C7_Witness ==
    /\ op = "intersection"
    /\ Len(ret) = 2
    /\ ret # UnionOfInput
    /\ \E k \in 1..Len(ret) : ret[k][1] = ret[k][2]

(***************************************************************************)
(* C8: intersectionIntervals(a, b) returns [max(a.start, b.start),         *)
(* min(a.end, b.end)] whenever that start <= that end, also when they are  *)
(* equal, and null exactly when that start > that end.                     *)
(***************************************************************************)
C8_IntersectionIntervalsMaxMin ==
    fn = "intersectionIntervals" =>
        LET start == CHOOSE m \in {arg1[1], arg2[1]} : arg1[1] <= m /\ arg2[1] <= m
            end == CHOOSE m \in {arg1[2], arg2[2]} : m <= arg1[2] /\ m <= arg2[2]
        IN /\ (start <= end => ivOut = <<start, end>>)
           /\ (ivOut = null <=> start > end)

\* Two different intervals that share exactly one point.
C8_Witness ==
    /\ fn = "intersectionIntervals"
    /\ arg1 # arg2
    /\ arg1[1] < arg1[2]
    /\ arg2[1] < arg2[2]
    /\ ivOut # null
    /\ ivOut[1] = ivOut[2]

(***************************************************************************)
(* C9: unionIntervals, complementMultiIntervals and                        *)
(* intersectionMultiIntervals leave the input array as it was: the same    *)
(* pairs in the same order, each with the same start and end.              *)
(***************************************************************************)
C9_CallsLeaveInputUnchanged ==
    op # "none" =>
        /\ intervals = before.intervals
        /\ heap = before.heap

(***************************************************************************)
(* C10: for two lines with c1 <= c2, getLineIntersection returns           *)
(* {c1: max of the c1, c2: min of the c2} when the ranges overlap with     *)
(* positive width, and {c1: 0, c2: 0} when one line ends before the other  *)
(* starts.                                                                 *)
(***************************************************************************)
C10_LineIntersectionOverlapOrSentinel ==
    (fn = "getLineIntersection" /\ arg1[1] <= arg1[2] /\ arg2[1] <= arg2[2]) =>
        LET lo == Max(arg1[1], arg2[1])
            hi == Min(arg1[2], arg2[2])
        IN /\ (lo < hi => lineOut = [c1 |-> lo, c2 |-> hi])
           /\ ((arg1[2] < arg2[1] \/ arg2[2] < arg1[1]) => lineOut = [c1 |-> 0, c2 |-> 0])

\* line1 starts first and reaches into line2, which ends later.
C10_Witness ==
    /\ fn = "getLineIntersection"
    /\ arg1[1] < arg2[1]
    /\ arg2[1] < arg1[2]
    /\ arg1[2] < arg2[2]
    /\ lineOut = [c1 |-> arg2[1], c2 |-> arg1[2]]

(***************************************************************************)
(* Planar geometry: rectangles {x, y, w, h} and points {x, y}.             *)
(***************************************************************************)
\* Bounds of the rectangle inputs.
MaxPos == 1
MaxSize == 3
MaxPixel == 1

\* Rects with non-negative w and h.
Rect == [x : 0..MaxPos, y : 0..MaxPos, w : 0..MaxSize, h : 0..MaxSize]

\* Rects whose w and h may also be negative.
SignedRect == [x : 0..MaxPos, y : 0..MaxPos, w : (0 - 1)..MaxSize, h : (0 - 1)..MaxSize]

Coord == [x : 0..(MaxPos + MaxSize), y : 0..(MaxPos + MaxSize)]

Direction == [Left |-> "left", Right |-> "right", Top |-> "top", Bottom |-> "bottom"]

Abs(a) == IF a < 0 THEN 0 - a ELSE a

rectToEdges(rect) ==
    [x1 |-> rect.x, y1 |-> rect.y, x2 |-> rect.x + rect.w, y2 |-> rect.y + rect.h]

(***************************************************************************)
(* getRectTouching(rect1, rect2, pixel).  getLineIntersection always       *)
(* returns an object, so "if (touching)" always holds and dir is set.      *)
(***************************************************************************)
LinearTouch(line, dir) == [c1 |-> line.c1, c2 |-> line.c2, dir |-> dir]

getRectTouchingTopFirst(r1rect, r2rect, px) ==
    LET r1 == rectToEdges(r1rect)
        r2 == rectToEdges(r2rect)
        alongY == getLineIntersection([c1 |-> r1.y1, c2 |-> r1.y2], [c1 |-> r2.y1, c2 |-> r2.y2])
        alongX == getLineIntersection([c1 |-> r1.x1, c2 |-> r1.x2], [c1 |-> r2.x1, c2 |-> r2.x2])
    IN IF Abs(r1.y1 - r2.y2) <= px THEN LinearTouch(alongX, Direction.Top)
       ELSE IF Abs(r1.y2 - r2.y1) <= px THEN LinearTouch(alongX, Direction.Bottom)
       ELSE IF Abs(r1.x1 - r2.x2) <= px THEN LinearTouch(alongY, Direction.Left)
       ELSE IF Abs(r1.x2 - r2.x1) <= px THEN LinearTouch(alongY, Direction.Right)
       ELSE null

getRectTouchingNullWhenApart(r1rect, r2rect, px) ==
    LET r1 == rectToEdges(r1rect)
        r2 == rectToEdges(r2rect)
        alongY == getLineIntersection([c1 |-> r1.y1, c2 |-> r1.y2], [c1 |-> r2.y1, c2 |-> r2.y2])
        alongX == getLineIntersection([c1 |-> r1.x1, c2 |-> r1.x2], [c1 |-> r2.x1, c2 |-> r2.x2])
        touch(line, dir) == IF line.c1 = line.c2 THEN null ELSE LinearTouch(line, dir)
    IN IF Abs(r1.x1 - r2.x2) <= px THEN touch(alongY, Direction.Left)
       ELSE IF Abs(r1.x2 - r2.x1) <= px THEN touch(alongY, Direction.Right)
       ELSE IF Abs(r1.y1 - r2.y2) <= px THEN touch(alongX, Direction.Top)
       ELSE IF Abs(r1.y2 - r2.y1) <= px THEN touch(alongX, Direction.Bottom)
       ELSE null

getRectTouching(r1rect, r2rect, px) ==
    LET r1 == rectToEdges(r1rect)
        r2 == rectToEdges(r2rect)
        alongY == getLineIntersection([c1 |-> r1.y1, c2 |-> r1.y2], [c1 |-> r2.y1, c2 |-> r2.y2])
        alongX == getLineIntersection([c1 |-> r1.x1, c2 |-> r1.x2], [c1 |-> r2.x1, c2 |-> r2.x2])
    IN IF Abs(r1.x1 - r2.x2) <= px THEN LinearTouch(alongY, Direction.Left)
       ELSE IF Abs(r1.x2 - r2.x1) <= px THEN LinearTouch(alongY, Direction.Right)
       ELSE IF Abs(r1.y1 - r2.y2) <= px THEN LinearTouch(alongX, Direction.Top)
       ELSE IF Abs(r1.y2 - r2.y1) <= px THEN LinearTouch(alongX, Direction.Bottom)
       ELSE null

(***************************************************************************)
(* isRectIntersection(rect1, rect2)                                        *)
(***************************************************************************)
isRectIntersectionStrict(r1rect, r2rect) ==
    LET r1 == rectToEdges(r1rect)
        r2 == rectToEdges(r2rect)
    IN r1.x1 < r2.x2 /\ r1.x2 > r2.x1 /\ r1.y1 < r2.y2 /\ r1.y2 > r2.y1

isRectIntersectionTypo(r1rect, r2rect) ==
    LET r1 == rectToEdges(r1rect)
        r2 == rectToEdges(r2rect)
    IN r1.x1 <= r2.x1 /\ r1.x2 >= r2.x1 /\ r1.y1 <= r2.y2 /\ r1.y2 >= r2.y1

isRectIntersection(r1rect, r2rect) ==
    LET r1 == rectToEdges(r1rect)
        r2 == rectToEdges(r2rect)
    IN r1.x1 <= r2.x2 /\ r1.x2 >= r2.x1 /\ r1.y1 <= r2.y2 /\ r1.y2 >= r2.y1

(***************************************************************************)
(* getRectIntersection(rect1, rect2).  Both "if ((lineInt = ...))" tests   *)
(* hold, because getLineIntersection always returns an object.             *)
(***************************************************************************)
nullIntersect == [x |-> 0, y |-> 0, w |-> 0, h |-> 0]

getRectIntersectionCopyPaste(r1rect, r2rect) ==
    LET lineX == getLineIntersection([c1 |-> r1rect.x, c2 |-> r1rect.x + r1rect.w],
                                     [c1 |-> r2rect.x, c2 |-> r2rect.x + r2rect.w])
        lineY == getLineIntersection([c1 |-> r1rect.x, c2 |-> r1rect.x + r1rect.w],
                                     [c1 |-> r2rect.x, c2 |-> r2rect.x + r2rect.w])
        intersect == [x |-> lineX.c1, y |-> lineY.c1,
                      w |-> lineX.c2 - lineX.c1, h |-> lineY.c2 - lineY.c1]
        intersectDirections == (IF intersect.w > 0 THEN 1 ELSE 0)
                               + (IF intersect.h > 0 THEN 1 ELSE 0)
    IN IF intersectDirections = 2 THEN intersect ELSE nullIntersect

getRectIntersectionCountsZero(r1rect, r2rect) ==
    LET lineX == getLineIntersection([c1 |-> r1rect.x, c2 |-> r1rect.x + r1rect.w],
                                     [c1 |-> r2rect.x, c2 |-> r2rect.x + r2rect.w])
        lineY == getLineIntersection([c1 |-> r1rect.y, c2 |-> r1rect.y + r1rect.h],
                                     [c1 |-> r2rect.y, c2 |-> r2rect.y + r2rect.h])
        intersect == [x |-> lineX.c1, y |-> lineY.c1,
                      w |-> lineX.c2 - lineX.c1, h |-> lineY.c2 - lineY.c1]
        intersectDirections == (IF intersect.w >= 0 THEN 1 ELSE 0)
                               + (IF intersect.h >= 0 THEN 1 ELSE 0)
    IN IF intersectDirections = 2 THEN intersect ELSE nullIntersect

getRectIntersectionFirstOrigin(r1rect, r2rect) ==
    LET lineX == getLineIntersection([c1 |-> r1rect.x, c2 |-> r1rect.x + r1rect.w],
                                     [c1 |-> r2rect.x, c2 |-> r2rect.x + r2rect.w])
        lineY == getLineIntersection([c1 |-> r1rect.y, c2 |-> r1rect.y + r1rect.h],
                                     [c1 |-> r2rect.y, c2 |-> r2rect.y + r2rect.h])
        intersect == [x |-> r1rect.x, y |-> r1rect.y,
                      w |-> lineX.c2 - lineX.c1, h |-> lineY.c2 - lineY.c1]
        intersectDirections == (IF intersect.w > 0 THEN 1 ELSE 0)
                               + (IF intersect.h > 0 THEN 1 ELSE 0)
    IN IF intersectDirections = 2 THEN intersect ELSE nullIntersect

getRectIntersection(r1rect, r2rect) ==
    LET lineX == getLineIntersection([c1 |-> r1rect.x, c2 |-> r1rect.x + r1rect.w],
                                     [c1 |-> r2rect.x, c2 |-> r2rect.x + r2rect.w])
        lineY == getLineIntersection([c1 |-> r1rect.y, c2 |-> r1rect.y + r1rect.h],
                                     [c1 |-> r2rect.y, c2 |-> r2rect.y + r2rect.h])
        intersect == [x |-> lineX.c1, y |-> lineY.c1,
                      w |-> lineX.c2 - lineX.c1, h |-> lineY.c2 - lineY.c1]
        intersectDirections == (IF intersect.w > 0 THEN 1 ELSE 0)
                               + (IF intersect.h > 0 THEN 1 ELSE 0)
    IN IF intersectDirections = 2 THEN intersect ELSE nullIntersect

(***************************************************************************)
(* isPointInsideRectangle(point, rectangle)                                *)
(***************************************************************************)
isPointInsideRectangleClosed(pt, rectangle) ==
    /\ rectangle.x <= pt.x /\ rectangle.x + rectangle.w >= pt.x
    /\ rectangle.y <= pt.y /\ rectangle.y + rectangle.h >= pt.y

isPointInsideRectangle(pt, rectangle) ==
    /\ rectangle.x < pt.x /\ rectangle.x + rectangle.w > pt.x
    /\ rectangle.y < pt.y /\ rectangle.y + rectangle.h > pt.y

(***************************************************************************)
(* SpecRect: one call of a rectangle function on two Rects with            *)
(* non-negative w and h.                                                   *)
(***************************************************************************)
InitRect ==
    /\ rect1 \in Rect
    /\ rect2 \in Rect
    /\ pixel = 0
    /\ point = [x |-> 0, y |-> 0]
    /\ rfn = "none"
    /\ boolOut = FALSE
    /\ rectOut = nullIntersect
    /\ touchOut = null
    /\ IdleInterval
    /\ IdleLine
    /\ IdleVector
    /\ IdleSettled
    /\ IdleRepeat
    /\ IdleSequence
    /\ IdleLayerset
    /\ IdleAnimation
    /\ IdleIdle

CallIsRectIntersection ==
    /\ rfn = "none"
    /\ rfn' = "isRectIntersection"
    /\ boolOut' = isRectIntersection(rect1, rect2)
    /\ UNCHANGED <<rect1, rect2, pixel, point, rectOut, touchOut, intervalVars, lineVars, vectorVars, settledVars, repeatVars, sequenceVars, layersetVars, animationVars, idleVars>>

CallGetRectIntersection ==
    /\ rfn = "none"
    /\ rfn' = "getRectIntersection"
    /\ rectOut' = getRectIntersection(rect1, rect2)
    /\ UNCHANGED <<rect1, rect2, pixel, point, boolOut, touchOut, intervalVars, lineVars, vectorVars, settledVars, repeatVars, sequenceVars, layersetVars, animationVars, idleVars>>

CallGetRectTouching ==
    /\ rfn = "none"
    /\ \E px \in 0..MaxPixel :
        /\ pixel' = px
        /\ touchOut' = getRectTouching(rect1, rect2, px)
    /\ rfn' = "getRectTouching"
    /\ UNCHANGED <<rect1, rect2, point, boolOut, rectOut, intervalVars, lineVars, vectorVars, settledVars, repeatVars, sequenceVars, layersetVars, animationVars, idleVars>>

NextRect == CallIsRectIntersection \/ CallGetRectIntersection \/ CallGetRectTouching

SpecRect == InitRect /\ [][NextRect]_vars

(***************************************************************************)
(* SpecPoint: one call of isPointInsideRectangle on a point and a Rect     *)
(* whose w and h may be negative or zero.                                  *)
(***************************************************************************)
InitPoint ==
    /\ rect1 \in SignedRect
    /\ point \in Coord
    /\ rect2 = nullIntersect
    /\ pixel = 0
    /\ rfn = "none"
    /\ boolOut = FALSE
    /\ rectOut = nullIntersect
    /\ touchOut = null
    /\ IdleInterval
    /\ IdleLine
    /\ IdleVector
    /\ IdleSettled
    /\ IdleRepeat
    /\ IdleSequence
    /\ IdleLayerset
    /\ IdleAnimation
    /\ IdleIdle

CallIsPointInsideRectangle ==
    /\ rfn = "none"
    /\ rfn' = "isPointInsideRectangle"
    /\ boolOut' = isPointInsideRectangle(point, rect1)
    /\ UNCHANGED <<rect1, rect2, pixel, point, rectOut, touchOut, intervalVars, lineVars, vectorVars, settledVars, repeatVars, sequenceVars, layersetVars, animationVars, idleVars>>

NextPoint == CallIsPointInsideRectangle

SpecPoint == InitPoint /\ [][NextPoint]_vars

(***************************************************************************)
(* The overlap of the two Rect arguments, from their coordinates: its      *)
(* extent along x and along y (negative when the projections are apart).   *)
(***************************************************************************)
OverlapLeft == Max(rect1.x, rect2.x)
OverlapTop == Max(rect1.y, rect2.y)
OverlapW == Min(rect1.x + rect1.w, rect2.x + rect2.w) - OverlapLeft
OverlapH == Min(rect1.y + rect1.h, rect2.y + rect2.h) - OverlapTop

\* The closed regions of the two rectangles have a point in common.
RegionsMeet == OverlapW >= 0 /\ OverlapH >= 0

\* The overlap has strictly positive area.
PositiveArea == OverlapW > 0 /\ OverlapH > 0

(***************************************************************************)
(* C11: isRectIntersection(rect1, rect2) is true exactly when              *)
(* r1.x1 <= r2.x2, r1.x2 >= r2.x1, r1.y1 <= r2.y2 and r1.y2 >= r2.y1 with  *)
(* x2 = x + w and y2 = y + h; rectangles that share only an edge or a      *)
(* corner are reported as intersecting.                                    *)
(***************************************************************************)
C11_IsRectIntersectionClosedTest ==
    rfn = "isRectIntersection" =>
        /\ boolOut = (/\ rect1.x <= rect2.x + rect2.w
                      /\ rect1.x + rect1.w >= rect2.x
                      /\ rect1.y <= rect2.y + rect2.h
                      /\ rect1.y + rect1.h >= rect2.y)
        /\ ((RegionsMeet /\ ~PositiveArea) => boolOut = TRUE)

\* Two rectangles of positive area that share exactly one corner point.
C11_Witness ==
    /\ rfn = "isRectIntersection"
    /\ rect1.w > 0 /\ rect1.h > 0 /\ rect2.w > 0 /\ rect2.h > 0
    /\ rect1.x + rect1.w = rect2.x
    /\ rect1.y + rect1.h = rect2.y
    /\ boolOut = TRUE

(***************************************************************************)
(* C12: for rectangles with non-negative w and h, getRectIntersection      *)
(* returns {x: max of the x, y: max of the y, w: min of the x+w minus that *)
(* x, h: min of the y+h minus that y} when the overlaps along x and along  *)
(* y both have strictly positive width, and {0, 0, 0, 0} otherwise.        *)
(***************************************************************************)
C12_GetRectIntersectionOverlapOrNull ==
    rfn = "getRectIntersection" =>
        rectOut = IF PositiveArea
                  THEN [x |-> OverlapLeft, y |-> OverlapTop, w |-> OverlapW, h |-> OverlapH]
                  ELSE [x |-> 0, y |-> 0, w |-> 0, h |-> 0]

\* rect2 lies strictly inside rect1 along x and sticks out of it along y.
C12_Witness ==
    /\ rfn = "getRectIntersection"
    /\ rect1.x < rect2.x
    /\ rect2.x + rect2.w < rect1.x + rect1.w
    /\ rect1.y < rect2.y
    /\ rect1.y + rect1.h < rect2.y + rect2.h
    /\ rectOut.w > 0
    /\ rectOut.h > 0
    /\ rectOut.x > 0

(***************************************************************************)
(* C13: for rectangles with non-negative w and h, getRectIntersection      *)
(* returns a Rect with w > 0 and h > 0 if and only if the overlap area is  *)
(* strictly positive, and in every such case isRectIntersection is true.   *)
(***************************************************************************)
C13_PositiveAreaAgreement ==
    /\ (rfn = "getRectIntersection" =>
            ((rectOut.w > 0 /\ rectOut.h > 0) <=> OverlapW * OverlapH > 0 /\ OverlapW > 0))
    /\ ((rfn = "isRectIntersection" /\ OverlapW * OverlapH > 0 /\ OverlapW > 0) =>
            boolOut = TRUE)

\* isRectIntersection was called on rectangles of positive overlap, rect1 right of rect2.
C13_Witness ==
    /\ rfn = "isRectIntersection"
    /\ PositiveArea
    /\ rect1.x > rect2.x
    /\ boolOut = TRUE

(***************************************************************************)
(* C14: for rectangles with non-negative w and h whose closed regions      *)
(* share a point but whose overlap has zero area, isRectIntersection is    *)
(* true while getRectIntersection returns {0, 0, 0, 0}.                    *)
(***************************************************************************)
C14_ZeroAreaOverlapDisagreement ==
    (RegionsMeet /\ OverlapW * OverlapH = 0) =>
        /\ (rfn = "isRectIntersection" => boolOut = TRUE)
        /\ (rfn = "getRectIntersection" => rectOut = [x |-> 0, y |-> 0, w |-> 0, h |-> 0])

\* A zero-width rectangle lying inside the other one, away from the origin.
C14_Witness ==
    /\ rfn = "getRectIntersection"
    /\ rect2.w = 0
    /\ rect2.h > 0
    /\ rect1.x < rect2.x
    /\ rect2.x < rect1.x + rect1.w
    /\ OverlapH > 0
    /\ rectOut = [x |-> 0, y |-> 0, w |-> 0, h |-> 0]

\* The four edge tests of getRectTouching, from the coordinates.
NearLeft == Abs(rect1.x - (rect2.x + rect2.w)) <= pixel
NearRight == Abs((rect1.x + rect1.w) - rect2.x) <= pixel
NearTop == Abs(rect1.y - (rect2.y + rect2.h)) <= pixel
NearBottom == Abs((rect1.y + rect1.h) - rect2.y) <= pixel

(***************************************************************************)
(* C15: getRectTouching reports the first edge within tolerance in the     *)
(* order left, right, top, bottom: Left whenever the left edge is within   *)
(* tolerance, Right only when Left did not match, Top only when neither    *)
(* of those matched, Bottom only when none of the first three matched.     *)
(***************************************************************************)
C15_TouchingFirstEdgeWins ==
    rfn = "getRectTouching" =>
        LET dir == IF touchOut = null THEN "none" ELSE touchOut.dir IN
        /\ (NearLeft => dir = "left")
        /\ ((~NearLeft /\ NearRight) => dir = "right")
        /\ ((~NearLeft /\ ~NearRight /\ NearTop) => dir = "top")
        /\ ((~NearLeft /\ ~NearRight /\ ~NearTop /\ NearBottom) => dir = "bottom")
        /\ (dir = "right" => ~NearLeft /\ NearRight)
        /\ (dir = "top" => ~NearLeft /\ ~NearRight /\ NearTop)
        /\ (dir = "bottom" => ~NearLeft /\ ~NearRight /\ ~NearTop /\ NearBottom)

\* rect2 touches rect1 at its left edge and at its top edge at once: Left is reported.
C15_Witness ==
    /\ rfn = "getRectTouching"
    /\ pixel = 0
    /\ NearLeft
    /\ NearTop
    /\ ~NearRight
    /\ touchOut # null
    /\ touchOut.dir = "left"

(***************************************************************************)
(* C16: getRectTouching returns null if and only if none of the four edge  *)
(* distances is <= pixel; otherwise it returns the getLineIntersection of  *)
(* the two rectangles' y-ranges (Left, Right) or x-ranges (Top, Bottom),   *)
(* tagged with the direction.                                              *)
(***************************************************************************)
C16_TouchingNullOrPerpendicularRange ==
    rfn = "getRectTouching" =>
        LET yRange == getLineIntersection([c1 |-> rect1.y, c2 |-> rect1.y + rect1.h],
                                          [c1 |-> rect2.y, c2 |-> rect2.y + rect2.h])
            xRange == getLineIntersection([c1 |-> rect1.x, c2 |-> rect1.x + rect1.w],
                                          [c1 |-> rect2.x, c2 |-> rect2.x + rect2.w])
        IN
        /\ (touchOut = null <=> ~(NearLeft \/ NearRight \/ NearTop \/ NearBottom))
        /\ (touchOut # null =>
                /\ touchOut.dir \in {"left", "right", "top", "bottom"}
                /\ [c1 |-> touchOut.c1, c2 |-> touchOut.c2] =
                       IF touchOut.dir \in {"left", "right"} THEN yRange ELSE xRange)

\* An edge is within tolerance although the rectangles are apart along that edge.
C16_Witness ==
    /\ rfn = "getRectTouching"
    /\ NearBottom
    /\ OverlapW < 0
    /\ touchOut = [c1 |-> 0, c2 |-> 0, dir |-> "bottom"]

(***************************************************************************)
(* C19: isPointInsideRectangle(point, rect) is true exactly when           *)
(* rect.x < point.x < rect.x + rect.w and rect.y < point.y < rect.y +      *)
(* rect.h; a point on an edge or corner is outside, and no point is inside *)
(* a rectangle with w <= 0 or h <= 0.                                      *)
(***************************************************************************)
C19_PointStrictlyInside ==
    rfn = "isPointInsideRectangle" =>
        LET left == rect1.x
            right == rect1.x + rect1.w
            top == rect1.y
            bottom == rect1.y + rect1.h
            onEdge == \/ (point.x \in {left, right} /\ top <= point.y /\ point.y <= bottom)
                      \/ (point.y \in {top, bottom} /\ left <= point.x /\ point.x <= right)
        IN
        /\ boolOut = (/\ left < point.x /\ point.x < right
                      /\ top < point.y /\ point.y < bottom)
        /\ (onEdge => boolOut = FALSE)
        /\ ((rect1.w <= 0 \/ rect1.h <= 0) => boolOut = FALSE)

\* A point strictly inside a rectangle.
C19_Witness ==
    /\ rfn = "isPointInsideRectangle"
    /\ boolOut = TRUE
    /\ rect1.w > 1
    /\ point.x > rect1.x

(***************************************************************************)
(* Vectors.  getVector and getCoord work on real numbers; the model keeps  *)
(* them exact.  A quotient of two integers is NaN, an infinity, the        *)
(* negative zero or a fraction n/d with d > 0.  An angle is NaN, the       *)
(* negative zero or a direction (cos, sin) given up to a positive factor,  *)
(* which names one angle of (-pi, pi]; adding angles composes rotations.   *)
(* A length or a coordinate is NaN or sign * sqrt(num / den).  Rounding of *)
(* the floating-point operations and the sign of a zero coordinate are not *)
(* modelled.                                                               *)
(***************************************************************************)
MaxMag == 5

SignedCoord == [x : (0 - MaxMag)..MaxMag, y : (0 - MaxMag)..MaxMag]

Sign(a) == IF a > 0 THEN 1 ELSE IF a < 0 THEN 0 - 1 ELSE 0

\* x / y of two integers, as JavaScript divides them.
Divide(x, y) ==
    IF y = 0
    THEN IF x = 0 THEN [kind |-> "NaN", n |-> 0, d |-> 1]
         ELSE IF x > 0 THEN [kind |-> "Infinity", n |-> 1, d |-> 0]
         ELSE [kind |-> "-Infinity", n |-> 0 - 1, d |-> 0]
    ELSE IF x = 0 /\ y < 0 THEN [kind |-> "-0", n |-> 0, d |-> 1]
    ELSE [kind |-> "finite", n |-> x * Sign(y), d |-> Abs(y)]

NaNAngle == [kind |-> "NaN", cos |-> 0, sin |-> 0]

Angle(c, s) == [kind |-> "finite", cos |-> c, sin |-> s]

\* Math.PI / 2
HalfPi == Angle(0, 1)

\* Math.atan: the angle of (-pi/2, pi/2) whose tangent is q, +-pi/2 for the
\* infinities, -0 for -0.
atan(q) ==
    CASE q.kind = "NaN" -> NaNAngle
      [] q.kind = "Infinity" -> Angle(0, 1)
      [] q.kind = "-Infinity" -> Angle(0, 0 - 1)
      [] q.kind = "-0" -> [kind |-> "-0", cos |-> 1, sin |-> 0]
      [] OTHER -> Angle(q.d, q.n)

IsZeroAngle(a) == a.kind # "NaN" /\ a.sin = 0 /\ a.cos > 0

\* a + b
Plus(a, b) ==
    IF a.kind = "NaN" \/ b.kind = "NaN" THEN NaNAngle
    ELSE [kind |-> IF a.kind = "-0" /\ b.kind = "-0" THEN "-0" ELSE "finite",
          cos |-> a.cos * b.cos - a.sin * b.sin,
          sin |-> a.sin * b.cos + a.cos * b.sin]

\* a - b
Minus(a, b) ==
    IF a.kind = "NaN" \/ b.kind = "NaN" THEN NaNAngle
    ELSE [kind |-> IF a.kind = "-0" /\ b.kind = "finite" /\ IsZeroAngle(b)
                   THEN "-0" ELSE "finite",
          cos |-> a.cos * b.cos + a.sin * b.sin,
          sin |-> a.sin * b.cos - a.cos * b.sin]

NaNNumber == [kind |-> "NaN", sign |-> 0, num |-> 0, den |-> 1]

\* Math.sqrt of a non-negative integer
sqrt(n) == [kind |-> "finite", sign |-> Sign(n), num |-> n, den |-> 1]

\* Math.sin
sin(a) ==
    IF a.kind = "NaN" THEN NaNNumber
    ELSE [kind |-> "finite", sign |-> Sign(a.sin), num |-> a.sin * a.sin,
          den |-> a.cos * a.cos + a.sin * a.sin]

\* Math.cos
cos(a) ==
    IF a.kind = "NaN" THEN NaNNumber
    ELSE [kind |-> "finite", sign |-> Sign(a.cos), num |-> a.cos * a.cos,
          den |-> a.cos * a.cos + a.sin * a.sin]

\* u * v
Times(u, v) ==
    IF u.kind = "NaN" \/ v.kind = "NaN" THEN NaNNumber
    ELSE [kind |-> "finite", sign |-> u.sign * v.sign, num |-> u.num * v.num,
          den |-> u.den * v.den]

getVector(components) ==
    [length |-> sqrt(components.x * components.x + components.y * components.y),
     angle |-> Plus(atan(Divide(components.x, components.y)), HalfPi)]

getCoord(vector) ==
    LET angle == Minus(vector.angle, HalfPi) IN
    [x |-> Times(vector.length, sin(angle)),
     y |-> Times(vector.length, cos(angle))]

(***************************************************************************)
(* SpecVector: getVector is called on a Coord with integer components of   *)
(* either sign, then getCoord on the Vector it returned.                   *)
(***************************************************************************)
InitVector ==
    /\ coord \in SignedCoord
    /\ vfn = "none"
    /\ vecOut = <<>>
    /\ coordOut = <<>>
    /\ IdleInterval
    /\ IdleLine
    /\ IdleRect
    /\ IdleSettled
    /\ IdleRepeat
    /\ IdleSequence
    /\ IdleLayerset
    /\ IdleAnimation
    /\ IdleIdle

CallGetVector ==
    /\ vfn = "none"
    /\ vfn' = "getVector"
    /\ vecOut' = getVector(coord)
    /\ UNCHANGED <<coord, coordOut, intervalVars, lineVars, rectVars, settledVars, repeatVars, sequenceVars, layersetVars, animationVars, idleVars>>

CallGetCoord ==
    /\ vfn = "getVector"
    /\ vfn' = "getCoord"
    /\ coordOut' = getCoord(vecOut)
    /\ UNCHANGED <<coord, vecOut, intervalVars, lineVars, rectVars, settledVars, repeatVars, sequenceVars, layersetVars, animationVars, idleVars>>

NextVector == CallGetVector \/ CallGetCoord

SpecVector == InitVector /\ [][NextVector]_vars

(***************************************************************************)
(* Reading the exact values: an angle that equals the angle of the         *)
(* direction (c, s), a number that equals the integer k.                   *)
(***************************************************************************)
IsAngle(a, c, s) ==
    /\ a.kind = "finite"
    /\ a.cos * s = a.sin * c
    /\ a.cos * c + a.sin * s > 0

IsNumber(u, k) ==
    /\ u.kind = "finite"
    /\ u.sign = Sign(k)
    /\ u.num = k * k * u.den

\* C17: getVector returns angle 0 for {x:0, y:5}, pi/4 for {x:1, y:1}, pi/2
\* for {x:3, y:0}, -pi/2 for {x:-3, y:0}, -0 for {x:0, y:-5}, and angle NaN
\* with length 0 for {x:0, y:0}; the angle of every nonzero coord lies in
\* (-pi/2, pi/2].
C17_GetVectorAnglesAsTested ==
    vfn # "none" =>
        /\ coord = [x |-> 0, y |-> 5] => IsAngle(vecOut.angle, 1, 0)
        /\ coord = [x |-> 1, y |-> 1] => IsAngle(vecOut.angle, 1, 1)
        /\ coord = [x |-> 3, y |-> 0] => IsAngle(vecOut.angle, 0, 1)
        /\ coord = [x |-> 0 - 3, y |-> 0] => IsAngle(vecOut.angle, 0, 0 - 1)
        /\ coord = [x |-> 0, y |-> 0 - 5] => vecOut.angle.kind = "-0"
        /\ coord = [x |-> 0, y |-> 0] =>
            /\ vecOut.angle.kind = "NaN"
            /\ IsNumber(vecOut.length, 0)
        /\ coord # [x |-> 0, y |-> 0] =>
            /\ vecOut.angle.kind # "NaN"
            /\ \/ vecOut.angle.cos > 0
               \/ vecOut.angle.cos = 0 /\ vecOut.angle.sin > 0

\* C18: getCoord(getVector(c)) equals c for every Coord c other than
\* {x:0, y:0}, in all four quadrants and on both axes.
C18_GetCoordInvertsGetVector ==
    (vfn = "getCoord" /\ coord # [x |-> 0, y |-> 0]) =>
        /\ IsNumber(coordOut.x, coord.x)
        /\ IsNumber(coordOut.y, coord.y)

(***************************************************************************)
(* promiseSettledSequence.  A factory is modelled by the settled state of  *)
(* the promise it returns (a factory that throws makes then() return a     *)
(* rejected promise, the same outcome).  The function hangs a then and a   *)
(* catch callback on the chain for every factory and a last then / catch   *)
(* pair that returns the array; the callbacks are reached one after the    *)
(* other.  A then callback runs when the promise it hangs on is fulfilled  *)
(* and a catch callback when it is rejected; a callback that does not run  *)
(* hands the settled state on unchanged.                                   *)
(***************************************************************************)
MaxFactories == 2

\* What a promise may be fulfilled or rejected with.
Value == {"undefined", "null", "v1", "v2"}

Fulfilled(v) == [status |-> "fulfilled", value |-> v]

Rejected(r) == [status |-> "rejected", reason |-> r]

PromiseSettledResult == {Fulfilled(v) : v \in Value} \cup {Rejected(r) : r \in Value}

\* Array.prototype.shift
shift(arr) == IF arr = <<>> THEN <<>> ELSE Tail(arr)

\* if (currentValue !== undefined) values.push({status: 'fulfilled', value})
pushFulfilled(arr, currentValue) ==
    IF currentValue # "undefined" THEN Append(arr, Fulfilled(currentValue)) ELSE arr

InitSettled ==
    /\ \E n \in 0..MaxFactories :
        /\ factories \in [1..n -> PromiseSettledResult]
        /\ stage = IF n = 0 THEN "finalThen" ELSE "then"
    /\ link = 1
    /\ result = Fulfilled("null")
    /\ values = <<>>
    /\ settledOut = [status |-> "pending"]
    /\ IdleInterval
    /\ IdleLine
    /\ IdleRect
    /\ IdleVector
    /\ IdleRepeat
    /\ IdleSequence
    /\ IdleLayerset
    /\ IdleAnimation
    /\ IdleIdle

\* result.then(currentValue => { ...; return factory(currentValue); })
ThenCallback ==
    /\ stage = "then"
    /\ IF result.status = "fulfilled"
       THEN /\ values' = pushFulfilled(values, result.value)
            /\ result' = factories[link]
       ELSE UNCHANGED <<values, result>>
    /\ stage' = "catch"
    /\ UNCHANGED <<factories, link, settledOut, intervalVars, lineVars, rectVars, vectorVars, repeatVars, sequenceVars, layersetVars, animationVars, idleVars>>

\* .catch(currentReason => { values.push({status: 'rejected', reason}); })
CatchCallback ==
    /\ stage = "catch"
    /\ IF result.status = "rejected"
       THEN /\ values' = Append(values, Rejected(result.reason))
            /\ result' = Fulfilled("undefined")
       ELSE UNCHANGED <<values, result>>
    /\ link' = link + 1
    /\ stage' = IF link < Len(factories) THEN "then" ELSE "finalThen"
    /\ UNCHANGED <<factories, settledOut, intervalVars, lineVars, rectVars, vectorVars, repeatVars, sequenceVars, layersetVars, animationVars, idleVars>>

\* return result.then(currentValue => { values.shift(); ...; return values; })
FinalThenCallback ==
    /\ stage = "finalThen"
    /\ IF result.status = "fulfilled"
       THEN /\ values' = pushFulfilled(shift(values), result.value)
            /\ result' = Fulfilled(values')
       ELSE UNCHANGED <<values, result>>
    /\ stage' = "finalCatch"
    /\ UNCHANGED <<factories, link, settledOut, intervalVars, lineVars, rectVars, vectorVars, repeatVars, sequenceVars, layersetVars, animationVars, idleVars>>

\* .catch(currentReason => { values.shift(); values.push(...); return values; })
FinalCatchCallback ==
    /\ stage = "finalCatch"
    /\ IF result.status = "rejected"
       THEN /\ values' = Append(shift(values), Rejected(result.reason))
            /\ settledOut' = Fulfilled(values')
       ELSE /\ settledOut' = result
            /\ UNCHANGED values
    /\ stage' = "done"
    /\ UNCHANGED <<factories, link, result, intervalVars, lineVars, rectVars, vectorVars, repeatVars, sequenceVars, layersetVars, animationVars, idleVars>>

NextSettled == ThenCallback \/ CatchCallback \/ FinalThenCallback \/ FinalCatchCallback

SpecSettled == InitSettled /\ [][NextSettled]_vars

\* C20: promiseSettledSequence resolves, never rejects, with exactly one
\* entry per factory, in the order of the factories, each entry the
\* fulfilled or rejected outcome of its factory; for every number of
\* factories (zero included) and every fulfilment value (undefined and null
\* included).
C20_SettledOneEntryPerFactoryInOrder ==
    stage = "done" =>
        /\ settledOut.status = "fulfilled"
        /\ Len(settledOut.value) = Len(factories)
        /\ \A i \in 1..Len(factories) : settledOut.value[i] = factories[i]

(***************************************************************************)
(* C26: getLineIntersection is symmetric in its arguments: for all lines   *)
(* with c1 <= c2, getLineIntersection(line1, line2) equals                 *)
(* getLineIntersection(line2, line1), also when a line is degenerate       *)
(* (c1 = c2), when both start at the same coordinate and when they share   *)
(* only an endpoint.                                                       *)
(***************************************************************************)
C26_LineIntersectionSymmetric ==
    (fn = "getLineIntersection" /\ arg1[1] <= arg1[2] /\ arg2[1] <= arg2[2]) =>
        lineOut = getLineIntersection(RectangularLine(arg2), RectangularLine(arg1))

(***************************************************************************)
(* C27: getRectIntersection is symmetric in its arguments: for all         *)
(* rectangles with non-negative w and h, getRectIntersection(rect1, rect2) *)
(* equals getRectIntersection(rect2, rect1).                               *)
(***************************************************************************)
C27_RectIntersectionSymmetric ==
    rfn = "getRectIntersection" => rectOut = getRectIntersection(rect2, rect1)

\* A zero-width rectangle that starts where the other rectangle starts: the
\* intersection of the x ranges depends on the order of the arguments, the
\* result does not.
C27_Witness ==
    /\ rfn = "getRectIntersection"
    /\ rect1.w = 0
    /\ rect2.w > 0
    /\ rect1.x = rect2.x
    /\ OverlapH > 0
    /\ getLineIntersection([c1 |-> rect1.x, c2 |-> rect1.x + rect1.w],
                           [c1 |-> rect2.x, c2 |-> rect2.x + rect2.w])
       # getLineIntersection([c1 |-> rect2.x, c2 |-> rect2.x + rect2.w],
                             [c1 |-> rect1.x, c2 |-> rect1.x + rect1.w])
    /\ rectOut = nullIntersect
    /\ rectOut = getRectIntersection(rect2, rect1)

(***************************************************************************)
(* C28: with pixel = 0, whenever getRectTouching returns a non-null result *)
(* for rectangles with non-negative w and h, isRectIntersection of the two *)
(* rectangles is true.                                                     *)
(***************************************************************************)
C28_TouchingImpliesIntersection ==
    (rfn = "getRectTouching" /\ pixel = 0 /\ touchOut # null) =>
        isRectIntersection(rect1, rect2)

(***************************************************************************)
(* C25: after one of unionIntervals, complementMultiIntervals and          *)
(* intersectionMultiIntervals has run on an array, every further call of   *)
(* any of them on that same array, in any order and any number of times,   *)
(* returns what the same call returns on a fresh copy of the original      *)
(* array.                                                                  *)
(***************************************************************************)
Fresh == [i \in 1..Len(original) |-> i]

C25_RepeatedCallsAsOnFreshCopy ==
    /\ op = "union" => ret = unionIntervals(original, Fresh).ret
    /\ op = "complement" => ret = complementMultiIntervals(domain, original, Fresh).ret
    /\ op = "intersection" => ret = intersectionMultiIntervals(domain, original, Fresh).ret

\* The last call ran on an array that earlier calls had reordered and whose
\* pairs they had written to, and it returned a non-empty result.
C25_Witness ==
    /\ op # "none"
    /\ before.intervals # Fresh
    /\ before.heap # original
    /\ \E i \in 1..Len(original) : before.heap[i][2] > original[i][2]
    /\ ret # <<>>

(***************************************************************************)
(* promiseSequence.  The reduce hangs one then callback per factory on the *)
(* accumulated promise, starting from Promise.resolve().  A then callback  *)
(* runs when the promise before it is fulfilled and calls its factory with *)
(* the value; the accumulated promise is then pending until the promise    *)
(* the factory returned settles.  A rejected promise passes every later    *)
(* then callback without running it.  A factory is one of                  *)
(*   "factory" any function returning a promise, which may settle in any   *)
(*             way (a factory that throws gives the same rejection),       *)
(*   "fetch"   tryRequest's first factory, () => fetch(url, options),      *)
(*   "repeat"  tryRequest's repeat(response).                              *)
(***************************************************************************)
MaxChain == 3

Pending == [status |-> "pending"]

\* The HTTP status codes a response may carry; ok is true for 2xx.
Statuses == {200, 404, 500}

\* The Response the k-th fetch call resolved with.
Response(k, st) == [id |-> k, status |-> st, ok |-> (st >= 200 /\ st <= 299)]

\* acc.then(() => curr()): the factory is called without the value.
SequenceThenDropsValue ==
    /\ index >= 1
    /\ index <= Len(promiseFactories)
    /\ acc.status # "pending"
    /\ IF acc.status = "fulfilled"
       THEN /\ calls' = Append(calls, [factory |-> index, value |-> "undefined"])
            /\ acc' = Pending
            /\ UNCHANGED <<index, fetches>>
       ELSE /\ index' = index + 1
            /\ UNCHANGED <<acc, calls, fetches>>
    /\ UNCHANGED <<promiseFactories, outcomes, times, responses, tryStage, tryOut,
                   intervalVars, lineVars, rectVars, vectorVars, settledVars, repeatVars, layersetVars, animationVars, idleVars>>

\* acc.then(cb, cb): the factory is called after a rejection as well.
SequenceThenRunsAfterRejection ==
    /\ index >= 1
    /\ index <= Len(promiseFactories)
    /\ acc.status # "pending"
    /\ calls' = Append(calls, [factory |-> index,
                               value |-> IF acc.status = "fulfilled"
                                         THEN acc.value ELSE acc.reason])
    /\ acc' = Pending
    /\ UNCHANGED <<index, fetches>>
    /\ UNCHANGED <<promiseFactories, outcomes, times, responses, tryStage, tryOut,
                   intervalVars, lineVars, rectVars, vectorVars, settledVars, repeatVars, layersetVars, animationVars, idleVars>>

\* repeat(response) that fetches again whatever the response was.
SequenceThenAlwaysFetches ==
    /\ index >= 1
    /\ index <= Len(promiseFactories)
    /\ acc.status # "pending"
    /\ IF acc.status = "fulfilled"
       THEN /\ calls' = Append(calls, [factory |-> index, value |-> acc.value])
            /\ acc' = Pending
            /\ fetches' = IF promiseFactories[index] = "factory" THEN fetches ELSE fetches + 1
            /\ UNCHANGED index
       ELSE /\ index' = index + 1
            /\ UNCHANGED <<acc, calls, fetches>>
    /\ UNCHANGED <<promiseFactories, outcomes, times, responses, tryStage, tryOut,
                   intervalVars, lineVars, rectVars, vectorVars, settledVars, repeatVars, layersetVars, animationVars, idleVars>>

\* acc.then((value) => curr(value))
SequenceThen ==
    /\ index >= 1
    /\ index <= Len(promiseFactories)
    /\ acc.status # "pending"
    /\ IF acc.status = "fulfilled"
       THEN /\ calls' = Append(calls, [factory |-> index, value |-> acc.value])
            /\ IF promiseFactories[index] = "factory"
               THEN /\ acc' = Pending
                    /\ UNCHANGED <<index, fetches>>
               ELSE IF promiseFactories[index] = "repeat" /\ acc.value.ok
               THEN /\ acc' = Fulfilled(acc.value)
                    /\ index' = index + 1
                    /\ UNCHANGED fetches
               ELSE /\ acc' = Pending
                    /\ fetches' = fetches + 1
                    /\ UNCHANGED index
       ELSE /\ index' = index + 1
            /\ UNCHANGED <<acc, calls, fetches>>
    /\ UNCHANGED <<promiseFactories, outcomes, times, responses, tryStage, tryOut,
                   intervalVars, lineVars, rectVars, vectorVars, settledVars, repeatVars, layersetVars, animationVars, idleVars>>

\* The promise the factory returned settles.
FactorySettles ==
    /\ index >= 1
    /\ index <= Len(promiseFactories)
    /\ acc.status = "pending"
    /\ promiseFactories[index] = "factory"
    /\ \E outcome \in PromiseSettledResult :
        /\ acc' = outcome
        /\ outcomes' = Append(outcomes, outcome)
    /\ index' = index + 1
    /\ UNCHANGED <<promiseFactories, calls, times, fetches, responses, tryStage, tryOut,
                   intervalVars, lineVars, rectVars, vectorVars, settledVars, repeatVars, layersetVars, animationVars, idleVars>>

(***************************************************************************)
(* SpecSequence: promiseSequence on an array of up to MaxChain factories.  *)
(* The returned promise is the accumulated promise behind the last then    *)
(* callback: acc once index has passed the last factory.                   *)
(***************************************************************************)
InitSequence ==
    /\ \E n \in 0..MaxChain : promiseFactories = [i \in 1..n |-> "factory"]
    /\ index = 1
    /\ acc = Fulfilled("undefined")
    /\ calls = <<>>
    /\ outcomes = <<>>
    /\ times = 0
    /\ fetches = 0
    /\ responses = <<>>
    /\ tryStage = "none"
    /\ tryOut = <<>>
    /\ IdleInterval
    /\ IdleLine
    /\ IdleRect
    /\ IdleVector
    /\ IdleSettled
    /\ IdleRepeat
    /\ IdleLayerset
    /\ IdleAnimation
    /\ IdleIdle

NextSequence == SequenceThen \/ FactorySettles

SpecSequence == InitSequence /\ [][NextSequence]_vars

\* The promise promiseSequence returned has settled.
SequenceReturned == index > Len(promiseFactories)

(***************************************************************************)
(* C21: promiseSequence invokes the factories strictly in array order,     *)
(* factory i+1 only after the promise of factory i has fulfilled and with  *)
(* that fulfilled value; the returned promise fulfils with the value of    *)
(* the last factory.                                                       *)
(***************************************************************************)
C21_SequenceInOrderWithPreviousValue ==
    /\ Len(outcomes) <= Len(calls)
    /\ Len(calls) <= Len(outcomes) + 1
    /\ \A k \in 1..Len(calls) :
        /\ calls[k].factory = k
        /\ k > 1 => /\ outcomes[k - 1].status = "fulfilled"
                    /\ calls[k].value = outcomes[k - 1].value
    /\ (/\ SequenceReturned
        /\ promiseFactories # <<>>
        /\ \A k \in 1..Len(outcomes) : outcomes[k].status = "fulfilled")
       => /\ Len(outcomes) = Len(promiseFactories)
          /\ acc = Fulfilled(outcomes[Len(outcomes)].value)

\* Three factories, each fulfilled with a value different from the one
\* before; the returned promise has fulfilled.
C21_Witness ==
    /\ Len(promiseFactories) = 3
    /\ SequenceReturned
    /\ Len(calls) = 3
    /\ calls[2].value = "v1"
    /\ calls[3].value = "v2"
    /\ acc = Fulfilled("null")

(***************************************************************************)
(* C30: if the promise of factory i rejects in promiseSequence, no factory *)
(* j > i is invoked and the returned promise rejects with that reason.     *)
(***************************************************************************)
C30_RejectionStopsSequence ==
    \A i \in 1..Len(outcomes) :
        outcomes[i].status = "rejected" =>
            /\ Len(calls) = i
            /\ acc = outcomes[i]
            /\ acc.status = "rejected"

\* The first of three factories rejected and the returned promise has
\* settled.
C30_Witness ==
    /\ Len(promiseFactories) = 3
    /\ outcomes = <<Rejected("v1")>>
    /\ SequenceReturned
    /\ Len(calls) = 1
    /\ acc = Rejected("v1")

(***************************************************************************)
(* tryRequest({times, url}) with times >= 1: promiseSequence on the array  *)
(* [() => fetch(url), repeat, ..., repeat] of times factories, followed by *)
(* a then callback that returns an ok response and throws any other, and a *)
(* catch callback that throws what it caught.  A fetch call resolves with  *)
(* a Response of some status or rejects with a TypeError (network error).  *)
(***************************************************************************)
MaxTimes == 3

FetchOutcome ==
    {Fulfilled(Response(k, st)) : k \in 1..MaxTimes, st \in Statuses}
        \cup {Rejected("TypeError")}

InitTry ==
    /\ times \in 1..MaxTimes
    /\ promiseFactories = [i \in 1..times |-> IF i = 1 THEN "fetch" ELSE "repeat"]
    /\ index = 1
    /\ acc = Fulfilled("undefined")
    /\ calls = <<>>
    /\ outcomes = <<>>
    /\ fetches = 0
    /\ responses = <<>>
    /\ tryStage = "then"
    /\ tryOut = Pending
    /\ IdleInterval
    /\ IdleLine
    /\ IdleRect
    /\ IdleVector
    /\ IdleSettled
    /\ IdleRepeat
    /\ IdleLayerset
    /\ IdleAnimation
    /\ IdleIdle

\* The promise fetch(url, options) returned settles.
FetchSettles ==
    /\ index >= 1
    /\ index <= Len(promiseFactories)
    /\ acc.status = "pending"
    /\ promiseFactories[index] # "factory"
    /\ \E outcome \in FetchOutcome :
        /\ outcome.status = "fulfilled" => outcome.value.id = fetches
        /\ acc' = outcome
        /\ responses' = Append(responses, outcome)
    /\ index' = index + 1
    /\ UNCHANGED <<promiseFactories, calls, outcomes, times, fetches, tryStage, tryOut,
                   intervalVars, lineVars, rectVars, vectorVars, settledVars, repeatVars, layersetVars, animationVars, idleVars>>

\* .then((response) => { if (response.ok) return response; else throw response; })
TryThen ==
    /\ tryStage = "then"
    /\ index > Len(promiseFactories)
    /\ tryOut' = IF acc.status = "fulfilled"
                 THEN IF acc.value.ok THEN Fulfilled(acc.value) ELSE Rejected(acc.value)
                 ELSE acc
    /\ tryStage' = "catch"
    /\ UNCHANGED <<promiseFactories, index, acc, calls, outcomes, times, fetches, responses,
                   intervalVars, lineVars, rectVars, vectorVars, settledVars, repeatVars, layersetVars, animationVars, idleVars>>

\* .catch((error) => { throw error; })
TryCatch ==
    /\ tryStage = "catch"
    /\ tryOut' = IF tryOut.status = "rejected" THEN Rejected(tryOut.reason) ELSE tryOut
    /\ tryStage' = "done"
    /\ UNCHANGED <<promiseFactories, index, acc, calls, outcomes, times, fetches, responses,
                   intervalVars, lineVars, rectVars, vectorVars, settledVars, repeatVars, layersetVars, animationVars, idleVars>>

NextTry == SequenceThen \/ FetchSettles \/ TryThen \/ TryCatch

SpecTry == InitTry /\ [][NextTry]_vars

\* The k-th fetch call resolved with a response, ok or not.
IsOk(k) == responses[k].status = "fulfilled" /\ responses[k].value.ok
IsNotOk(k) == responses[k].status = "fulfilled" /\ ~responses[k].value.ok

(***************************************************************************)
(* C22: tryRequest with times >= 1 issues at most times fetch calls and no *)
(* fetch after the first ok response; it fetches again after every non-ok  *)
(* response while fewer than times calls were made; it resolves with the   *)
(* ok response, and rejects with the last response when all times          *)
(* responses are non-ok.                                                   *)
(***************************************************************************)
C22_TryRequestRetriesUntilOk ==
    /\ fetches <= times
    /\ Len(responses) <= fetches
    /\ \A k \in 1..Len(responses) : IsOk(k) => fetches = k
    /\ tryStage = "done" =>
        /\ tryOut.status # "pending"
        /\ Len(responses) = fetches
        /\ (\A k \in 1..Len(responses) : IsNotOk(k)) => fetches = times
        /\ \A k \in 1..Len(responses) :
            IsOk(k) => tryOut = Fulfilled(responses[k].value)
        /\ (\A k \in 1..times : k <= Len(responses) /\ IsNotOk(k))
               => tryOut = Rejected(responses[times].value)

\* Three tries allowed; the first response is a 404, the second a 200, and
\* the request has resolved with the second response after two fetch calls.
C22_Witness ==
    /\ times = 3
    /\ tryStage = "done"
    /\ fetches = 2
    /\ responses = <<Fulfilled(Response(1, 404)), Fulfilled(Response(2, 200))>>
    /\ tryOut = Fulfilled(Response(2, 200))

(***************************************************************************)
(* Canvas.Layerset.  The set keeps its layers in the array layers; a layer *)
(* is an object with a zIndex property, 0 when the layer is created.  The  *)
(* model has MaxLayers layer objects and lets the array grow to MaxSlots   *)
(* entries.  Drawing, the canvas elements and ownerSet are left out: they  *)
(* do not write to layers or zIndex.                                       *)
(***************************************************************************)
MaxLayers == 3
MaxSlots == 4
MaxStep == 2

LayerObjects == 1..MaxLayers

\* getLayerIndex(currentLayer): layers.findIndex, 0-based, -1 when absent.
getLayerIndex(ls, currentLayer) ==
    IF \E i \in 1..Len(ls) : ls[i] = currentLayer
    THEN (CHOOSE i \in 1..Len(ls) :
              /\ ls[i] = currentLayer
              /\ \A j \in 1..(i - 1) : ls[j] # currentLayer) - 1
    ELSE 0 - 1

\* setZIndex(): layers.forEach((layer, i) => { layer.zIndex = i; }), from
\* the 0-based index i on.
RECURSIVE setZIndexFrom(_, _, _)
setZIndexFrom(ls, z, i) ==
    IF i >= Len(ls) THEN z
    ELSE setZIndexFrom(ls, [z EXCEPT ![ls[i + 1]] = i], i + 1)

setZIndex(ls, z) == setZIndexFrom(ls, z, 0)

\* layers.splice(at, 0, layer) for at >= 0
spliceInsert(ls, at, layer) ==
    LET k == Min(at, Len(ls)) IN
    SubSeq(ls, 1, k) \o <<layer>> \o SubSeq(ls, k + 1, Len(ls))

\* layers.splice(at, 1) for 0 <= at < layers.length: the array that is left
spliceRemove(ls, at) == SubSeq(ls, 1, at) \o SubSeq(ls, at + 2, Len(ls))

\* pushLayer(currentLayer, zIndex): the array after the insertion; zIndex is
\* 'top', 'bg' or (where = "index") the number at.
pushLayer(ls, currentLayer, where, at) ==
    IF where = "top" THEN Append(ls, currentLayer)
    ELSE IF where = "bg" THEN <<currentLayer>> \o ls
    ELSE spliceInsert(ls, at, currentLayer)

\* moveLayer(currentLayer, direction, step): the array after the move.
moveLayer(ls, currentLayer, direction, step) ==
    LET from == getLayerIndex(ls, currentLayer)
        max == Len(ls) - 1
        to == IF direction = "up" THEN Min(from + step, max)
              ELSE IF direction = "down" THEN Max(from - step, 0)
              ELSE IF direction = "top" THEN max
              ELSE 0
    IN IF from > 0 - 1
       THEN spliceInsert(spliceRemove(ls, from), to, ls[from + 1])
       ELSE ls

(***************************************************************************)
(* SpecLayerset: a Layerset constructed with distinct layers, then any     *)
(* calls of pushLayer, removeLayer and moveLayer with any layer object.    *)
(***************************************************************************)
InitLayerset ==
    /\ \E n \in 0..MaxLayers :
        /\ layers \in [1..n -> LayerObjects]
        /\ \A i, j \in 1..n : layers[i] = layers[j] => i = j
    /\ zIndex = setZIndex(layers, [l \in LayerObjects |-> 0])
    /\ lfn = "none"
    /\ IdleInterval
    /\ IdleLine
    /\ IdleRect
    /\ IdleVector
    /\ IdleSettled
    /\ IdleRepeat
    /\ IdleSequence
    /\ IdleAnimation
    /\ IdleIdle

CallPushLayer ==
    /\ Len(layers) < MaxSlots
    /\ \E currentLayer \in LayerObjects, where \in {"top", "bg", "index"}, at \in 0..MaxSlots :
        /\ layers' = pushLayer(layers, currentLayer, where, at)
        /\ zIndex' = setZIndex(layers', zIndex)
    /\ lfn' = "pushLayer"
    /\ UNCHANGED <<intervalVars, lineVars, rectVars, vectorVars, settledVars, repeatVars, sequenceVars, animationVars, idleVars>>

CallRemoveLayer ==
    /\ \E currentLayer \in LayerObjects :
        LET n == getLayerIndex(layers, currentLayer) IN
        IF n > 0 - 1
        THEN /\ layers' = spliceRemove(layers, n)
             /\ zIndex' = setZIndex(layers', zIndex)
        ELSE UNCHANGED <<layers, zIndex>>
    /\ lfn' = "removeLayer"
    /\ UNCHANGED <<intervalVars, lineVars, rectVars, vectorVars, settledVars, repeatVars, sequenceVars, animationVars, idleVars>>

CallMoveLayer ==
    /\ \E currentLayer \in LayerObjects, direction \in {"up", "down", "top", "bg"},
          step \in 1..MaxStep :
        /\ layers' = moveLayer(layers, currentLayer, direction, step)
        /\ zIndex' = IF getLayerIndex(layers, currentLayer) > 0 - 1
                     THEN setZIndex(layers', zIndex)
                     ELSE zIndex
    /\ lfn' = "moveLayer"
    /\ UNCHANGED <<intervalVars, lineVars, rectVars, vectorVars, settledVars, repeatVars, sequenceVars, animationVars, idleVars>>

NextLayerset == CallPushLayer \/ CallRemoveLayer \/ CallMoveLayer

SpecLayerset == InitLayerset /\ [][NextLayerset]_vars

(***************************************************************************)
(* C23: after construction and after any sequence of pushLayer,            *)
(* removeLayer and moveLayer calls, every layer in the set has zIndex      *)
(* equal to its position in the layer order: the zIndex values of the      *)
(* set's layers are exactly 0..n-1 with no gaps and no duplicates.         *)
(***************************************************************************)
C23_ZIndexIsPosition ==
    \A i \in 1..Len(layers) : zIndex[layers[i]] = i - 1

(***************************************************************************)
(* animation.run and animation.stop.  animation.timers and                 *)
(* animation.values are objects used as dictionaries: functions from the   *)
(* IDs that are own properties.  Time is counted in ticks; an animation    *)
(* runs with range [0, delay] and the linear easing, so that its value is  *)
(* the time since its start.  requestAnimationFrame returns a new handle   *)
(* and the frame is run later, unless it is cancelled first.               *)
(***************************************************************************)
MaxDelay == 2
MaxHandle == 3

AnimationIDs == {"scroll", "timeoutID"}

\* obj[key] = value
With(obj, key, value) ==
    [k \in (DOMAIN obj) \cup {key} |-> IF k = key THEN value ELSE obj[k]]

\* delete obj[key]
Without(obj, key) == [k \in (DOMAIN obj) \ {key} |-> obj[k]]

\* animation.easings.linear(t, b, c, d) with b = 0 and c = d
linear(t, b, c, d) == (c * t) \div d + b

\* makeStep() of the run of ID, currentTime ticks after its start.
makeStep(ID, currentTime, delay) ==
    LET value == IF delay = 0 THEN 0 ELSE linear(currentTime, 0, delay, delay) IN
    IF currentTime >= delay
    THEN [timers |-> Without(animationTimers, ID),
          values |-> With(animationValues, ID, value),
          requested |-> {},
          handles |-> handles,
          resolved |-> With(resolved, ID, value)]
    ELSE [timers |-> With(animationTimers, ID, handles + 1),
          values |-> With(animationValues, ID, value),
          requested |-> {[handle |-> handles + 1, ID |-> ID]},
          handles |-> handles + 1,
          resolved |-> resolved]

\* if (Object.hasOwn(animation.timers, 'timeoutID'))
stopTest(timeoutID) == "timeoutID" \in DOMAIN animationTimers

InitAnimation ==
    /\ animationTimers = [k \in {} |-> 0]
    /\ animationValues = [k \in {} |-> 0]
    /\ frames = {}
    /\ running = [k \in {} |-> 0]
    /\ handles = 0
    /\ resolved = [k \in {} |-> 0]
    /\ afn = "none"
    /\ stopOut = <<>>
    /\ IdleInterval
    /\ IdleLine
    /\ IdleRect
    /\ IdleVector
    /\ IdleSettled
    /\ IdleRepeat
    /\ IdleSequence
    /\ IdleLayerset
    /\ IdleIdle

\* animation.run(ID, {delay, range: [0, delay], easing: 'linear'}) for an ID
\* that has no frame requested.
CallRun ==
    /\ handles < MaxHandle
    /\ \E ID \in AnimationIDs, delay \in 0..MaxDelay :
        /\ \A f \in frames : f.ID # ID
        /\ LET r == makeStep(ID, 0, delay) IN
            /\ animationTimers' = r.timers
            /\ animationValues' = r.values
            /\ frames' = frames \cup r.requested
            /\ handles' = r.handles
            /\ resolved' = r.resolved
        /\ running' = With(running, ID, [currentTime |-> 0, delay |-> delay])
    /\ afn' = "run"
    /\ UNCHANGED <<stopOut, intervalVars, lineVars, rectVars, vectorVars, settledVars,
                   repeatVars, sequenceVars, layersetVars, idleVars>>

\* The browser runs a requested frame: makeStep, some ticks later.
RunFrame ==
    /\ \E f \in frames, dt \in 1..MaxDelay :
        LET currentTime == running[f.ID].currentTime + dt
            r == makeStep(f.ID, currentTime, running[f.ID].delay)
        IN /\ currentTime < running[f.ID].delay => handles < MaxHandle
           /\ animationTimers' = r.timers
           /\ animationValues' = r.values
           /\ frames' = (frames \ {f}) \cup r.requested
           /\ handles' = r.handles
           /\ resolved' = r.resolved
           /\ running' = With(running, f.ID, [currentTime |-> currentTime,
                                              delay |-> running[f.ID].delay])
    /\ afn' = "makeStep"
    /\ UNCHANGED <<stopOut, intervalVars, lineVars, rectVars, vectorVars, settledVars,
                   repeatVars, sequenceVars, layersetVars, idleVars>>

\* animation.stop(timeoutID).  cancelAnimationFrame of a handle that is not
\* requested, or of undefined, does nothing.
CallStop ==
    /\ \E timeoutID \in AnimationIDs :
        /\ frames' = IF stopTest(timeoutID) /\ timeoutID \in DOMAIN animationTimers
                     THEN {f \in frames : f.handle # animationTimers[timeoutID]}
                     ELSE frames
        /\ stopOut' = [ID |-> timeoutID,
                       inProgress |-> timeoutID \in DOMAIN animationTimers,
                       ret |-> IF ~stopTest(timeoutID) THEN [kind |-> "null", value |-> 0]
                               ELSE IF timeoutID \in DOMAIN animationValues
                               THEN [kind |-> "number", value |-> animationValues[timeoutID]]
                               ELSE [kind |-> "undefined", value |-> 0]]
    /\ afn' = "stop"
    /\ UNCHANGED <<animationTimers, animationValues, running, handles, resolved,
                   intervalVars, lineVars, rectVars, vectorVars, settledVars,
                   repeatVars, sequenceVars, layersetVars, idleVars>>

NextAnimation == CallRun \/ RunFrame \/ CallStop

SpecAnimation == InitAnimation /\ [][NextAnimation]_vars

(***************************************************************************)
(* C24: animation.stop(ID), called while animation.timers has an entry for *)
(* ID, cancels the pending frame of that animation and returns             *)
(* animation.values[ID]; it returns null only when no animation with that  *)
(* ID is in progress.                                                      *)
(***************************************************************************)
C24_StopCancelsAndReturnsLastValue ==
    afn = "stop" =>
        /\ stopOut.inProgress =>
            /\ \A f \in frames : f.ID # stopOut.ID
            /\ stopOut.ret = [kind |-> "number", value |-> animationValues[stopOut.ID]]
        /\ stopOut.ret.kind = "null" => ~stopOut.inProgress

(***************************************************************************)
(* idleHandler(timeout).  A slot of the observers array holds the handler  *)
(* subscribed at that index or, after unsubscribe, a hole that forEach     *)
(* skips.  For every slot the model keeps what its handler has been        *)
(* called with: the status of the last call (last), whether some call      *)
(* passed the same status as the call before it (repeated), and whether    *)
(* the handler was called after it had been unsubscribed (late).           *)
(***************************************************************************)
MaxObservers == 3

\* observer(status) for the handler of one slot
deliver(slot, status) ==
    [slot EXCEPT !.last = status,
                 !.repeated = slot.repeated \/ slot.last = status,
                 !.late = slot.late \/ slot.deleted]

\* notify(status): observers.forEach(...), which skips deleted slots
notify(obs, status) ==
    [i \in 1..Len(obs) |-> IF obs[i].deleted THEN obs[i] ELSE deliver(obs[i], status)]

InitIdle ==
    /\ active = FALSE
    /\ timerRunning = TRUE
    /\ timerPending = TRUE
    /\ observers = <<>>
    /\ IdleInterval
    /\ IdleLine
    /\ IdleRect
    /\ IdleVector
    /\ IdleSettled
    /\ IdleRepeat
    /\ IdleSequence
    /\ IdleLayerset
    /\ IdleAnimation

\* The listener of mousemove, mousedown, wheel, keydown, touchstart and
\* touchmove: notify(true) when inactive, then clearTimeout(timer),
\* timerRunning = false and waiting(), which sets a new timeout.
UserActivity ==
    /\ active' = TRUE
    /\ observers' = IF ~active THEN notify(observers, TRUE) ELSE observers
    /\ timerRunning' = TRUE
    /\ timerPending' = TRUE
    /\ UNCHANGED <<intervalVars, lineVars, rectVars, vectorVars, settledVars, repeatVars,
                   sequenceVars, layersetVars, animationVars>>

\* The callback of the timeout set in waiting()
TimerExpires ==
    /\ timerPending
    /\ timerPending' = FALSE
    /\ active' = FALSE
    /\ observers' = notify(observers, FALSE)
    /\ UNCHANGED <<timerRunning, intervalVars, lineVars, rectVars, vectorVars, settledVars,
                   repeatVars, sequenceVars, layersetVars, animationVars>>

\* subscribe(statusHandler) with a handler not subscribed before
CallSubscribe ==
    /\ Len(observers) < MaxObservers
    /\ observers' = Append(observers,
                           [deleted |-> FALSE, last |-> active, repeated |-> FALSE,
                            late |-> FALSE])
    /\ UNCHANGED <<active, timerRunning, timerPending, intervalVars, lineVars, rectVars,
                   vectorVars, settledVars, repeatVars, sequenceVars, layersetVars,
                   animationVars>>

\* unsubscribe(observerIndex): delete observers[observerIndex]
CallUnsubscribe ==
    /\ \E observerIndex \in 0..(MaxObservers - 1) :
        observers' = [i \in 1..Len(observers) |->
                          IF i = observerIndex + 1
                          THEN [observers[i] EXCEPT !.deleted = TRUE]
                          ELSE observers[i]]
    /\ UNCHANGED <<active, timerRunning, timerPending, intervalVars, lineVars, rectVars,
                   vectorVars, settledVars, repeatVars, sequenceVars, layersetVars,
                   animationVars>>

NextIdle == UserActivity \/ TimerExpires \/ CallSubscribe \/ CallUnsubscribe

SpecIdle == InitIdle /\ [][NextIdle]_vars

(***************************************************************************)
(* C29: subscribe delivers the current status at once; afterwards, under   *)
(* any interleaving of user activity and timer expiries, an observer is    *)
(* notified only when the active status changes, so it never receives the  *)
(* same status twice in a row; after unsubscribe it is never notified.     *)
(***************************************************************************)
C29_ObserversSeeAlternatingStatuses ==
    \A i \in 1..Len(observers) :
        /\ ~observers[i].deleted => observers[i].last = active
        /\ ~observers[i].repeated
        /\ ~observers[i].late

====
